---- MODULE Spec2Model ----
(***************************************************************************)
(* Storefront front-end (src/js/app.js): the cart state machine, its       *)
(* persistence in localStorage, the cart view, and the initial catalog     *)
(* load.                                                                   *)
(*                                                                         *)
(* JavaScript values are records [t, a, n, s]: t is the typeof/Array tag,  *)
(* a the elements of an array, n the value of a number, s the value of a   *)
(* string.  A cart line is a record with the product's fields and qty.     *)
(* Prices are integer cents.  JSON text is a sequence of tokens [k, s, n]. *)
(***************************************************************************)
EXTENDS Integers, Sequences, FiniteSets, TLC

\* ------------------------------------------------------------------ bounds
\* add / changeQty(+1) are not taken once a line holds MaxQty items
MaxQty == 2

\* ---------------------------------------------------------------- catalog
\* The products the remote API answers with (fixture of spec section 8,
\* plus one more product so that a cart can hold three lines).
Catalog ==
    << [id |-> 1, title |-> "Red Shirt", price |-> 1999, category |-> "clothing"],
       [id |-> 2, title |-> "Blue Hat",  price |-> 950,  category |-> "clothing"],
       [id |-> 3, title |-> "Phone",     price |-> 500,  category |-> "electronics"] >>

Categories == << "clothing", "electronics" >>

ProductIds == { Catalog[i].id : i \in 1..Len(Catalog) }

\* ------------------------------------------------------------- JS values
JSArray(a)  == [t |-> "array",   a |-> a,    n |-> 0, s |-> ""]
JSNumber(n) == [t |-> "number",  a |-> << >>, n |-> n, s |-> ""]
JSString(s) == [t |-> "string",  a |-> << >>, n |-> 0, s |-> s]
JSBool(b)   == [t |-> "boolean", a |-> << >>, n |-> IF b THEN 1 ELSE 0, s |-> ""]
JSNull      == [t |-> "null",    a |-> << >>, n |-> 0, s |-> ""]
JSObject    == [t |-> "object",  a |-> << >>, n |-> 0, s |-> ""]

\* ToBoolean, as used by `JSON.parse(...) || []`
Truthy(v) ==
    CASE v.t = "null"    -> FALSE
      [] v.t = "boolean" -> v.n = 1
      [] v.t = "number"  -> v.n # 0
      [] v.t = "string"  -> v.s # ""
      [] OTHER           -> TRUE

\* Array.isArray(v): find, filter, reduce and map exist on arrays only
IsArray(v) == v.t = "array"

\* `!v.length`: a string has the length of its text, a number, a boolean and
\* an object without a "length" member have none (undefined)
StrLen(s) == IF s = "" THEN 0 ELSE 1
LengthIsZero(v) ==
    CASE v.t = "array"  -> Len(v.a) = 0
      [] v.t = "string" -> StrLen(v.s) = 0
      [] OTHER          -> TRUE

\* ------------------------------------------------------------ JSON text
Tk(k)   == [k |-> k,     s |-> "", n |-> 0]
TNum(n) == [k |-> "num", s |-> "", n |-> n]
TStr(s) == [k |-> "str", s |-> s,  n |-> 0]

FieldOrder == << "id", "title", "price", "category", "qty" >>

IsNumField(f) == f \in {"id", "price", "qty"}

RECURSIVE StringifyMembers(_, _)
StringifyMembers(o, fs) ==
    IF fs = << >> THEN << >>
    ELSE LET f == Head(fs)
             m == << TStr(f), Tk(":"), IF IsNumField(f) THEN TNum(o[f]) ELSE TStr(o[f]) >>
         IN  IF Len(fs) = 1 THEN m ELSE m \o << Tk(",") >> \o StringifyMembers(o, Tail(fs))

StringifyLine(i) == << Tk("{") >> \o StringifyMembers(i, FieldOrder) \o << Tk("}") >>

RECURSIVE StringifyElements(_)
StringifyElements(a) ==
    IF a = << >> THEN << >>
    ELSE IF Len(a) = 1 THEN StringifyLine(a[1])
    ELSE StringifyLine(a[1]) \o << Tk(",") >> \o StringifyElements(Tail(a))

JSONStringify(v) ==
    CASE v.t = "array"   -> << Tk("[") >> \o StringifyElements(v.a) \o << Tk("]") >>
      [] v.t = "number"  -> << TNum(v.n) >>
      [] v.t = "string"  -> << TStr(v.s) >>
      [] v.t = "boolean" -> << Tk(IF v.n = 1 THEN "true" ELSE "false") >>
      [] v.t = "null"    -> << Tk("null") >>
      [] OTHER           -> << Tk("{"), Tk("}") >>

SyntaxError == [ok |-> FALSE, v |-> JSNull, next |-> 0]

IsScalarTok(tok) == tok.k \in {"num", "str"}

MemberValue(tok) == IF tok.k = "num" THEN tok.n ELSE tok.s

\* members of an object, a key expected at toks[i]; a repeated key keeps
\* the later value
RECURSIVE ParseMembers(_, _, _)
ParseMembers(toks, i, acc) ==
    IF i + 3 > Len(toks) THEN SyntaxError
    ELSE IF toks[i].k # "str" \/ toks[i+1].k # ":" \/ ~IsScalarTok(toks[i+2])
         THEN SyntaxError
    ELSE LET acc2 == (toks[i].s :> MemberValue(toks[i+2])) @@ acc
         IN  CASE toks[i+3].k = "}" -> [ok |-> TRUE, v |-> acc2, next |-> i + 4]
               [] toks[i+3].k = "," -> ParseMembers(toks, i + 4, acc2)
               [] OTHER             -> SyntaxError

\* elements of an array, an object expected at toks[i]
RECURSIVE ParseElements(_, _, _)
ParseElements(toks, i, acc) ==
    IF i + 1 > Len(toks) \/ toks[i].k # "{" THEN SyntaxError
    ELSE LET o == ParseMembers(toks, i + 1, << >>)
         IN  IF ~o.ok \/ o.next > Len(toks) THEN SyntaxError
             ELSE CASE toks[o.next].k = "]" ->
                         [ok |-> TRUE, v |-> Append(acc, o.v), next |-> o.next + 1]
                    [] toks[o.next].k = "," ->
                         ParseElements(toks, o.next + 1, Append(acc, o.v))
                    [] OTHER -> SyntaxError

\* JSON.parse of a text: a value, or SyntaxError
JSONParse(toks) ==
    IF toks = << >> THEN SyntaxError
    ELSE LET k == toks[1].k
             whole(r) == IF r.ok /\ r.next = Len(toks) + 1 THEN r ELSE SyntaxError
             one(v)   == IF Len(toks) = 1 THEN [ok |-> TRUE, v |-> v, next |-> 2]
                         ELSE SyntaxError
         IN  CASE k = "num"   -> one(JSNumber(toks[1].n))
               [] k = "str"   -> one(JSString(toks[1].s))
               [] k = "true"  -> one(JSBool(TRUE))
               [] k = "false" -> one(JSBool(FALSE))
               [] k = "null"  -> one(JSNull)
               [] k = "["     ->
                    IF Len(toks) >= 2 /\ toks[2].k = "]"
                    THEN whole([ok |-> TRUE, v |-> JSArray(<< >>), next |-> 3])
                    ELSE LET r == ParseElements(toks, 2, << >>)
                         IN  whole([ok |-> r.ok,
                                    v |-> IF r.ok THEN JSArray(r.v) ELSE JSNull,
                                    next |-> r.next])
               [] k = "{"     ->
                    IF Len(toks) >= 2 /\ toks[2].k = "}"
                    THEN whole([ok |-> TRUE, v |-> JSObject, next |-> 3])
                    ELSE LET r == ParseMembers(toks, 2, << >>)
                         IN  whole([ok |-> r.ok, v |-> JSObject, next |-> r.next])
               [] OTHER       -> SyntaxError

\* --------------------------------------------------------- localStorage
\* the 'cart' key of localStorage: absent, or a text
NoItem       == [present |-> FALSE, text |-> << >>]
Item(text)   == [present |-> TRUE,  text |-> text]

\* localStorage.getItem('cart') handed to JSON.parse: null reads as "null"
GetItemText(st) == IF st.present THEN st.text ELSE << Tk("null") >>

OrEmpty(v) == IF Truthy(v) THEN v ELSE JSArray(<< >>)

\* a read of another key than the one saveCart writes
LoadCartOtherKey(st) == JSArray(<< >>)

LoadCart(st) ==
    LET r == JSONParse(GetItemText(st))
    IN  IF r.ok THEN OrEmpty(r.v) ELSE JSArray(<< >>)

SaveCart(c) == Item(JSONStringify(c))

\* ----------------------------------------------------------- cart lines
Line(p, q) == [id |-> p.id, title |-> p.title, price |-> p.price,
               category |-> p.category, qty |-> q]

\* index of the first element with this id, 0 when there is none
\* (Array.prototype.find with i => i.id === id)
FindIndex(a, id) ==
    IF \E i \in 1..Len(a) : a[i].id = id
    THEN CHOOSE i \in 1..Len(a) : a[i].id = id /\ \A j \in 1..(i - 1) : a[j].id # id
    ELSE 0

\* a push without the lookup of line 200
AddLineAlwaysAppend(a, prod) == Append(a, Line(prod, 1))

\* a new line put in front of the others
AddLineAtFront(a, prod) ==
    LET i == FindIndex(a, prod.id)
    IN  IF i # 0 THEN [a EXCEPT ![i].qty = @ + 1] ELSE << Line(prod, 1) >> \o a

\* addToCart, lines 200-202
AddLine(a, prod) ==
    LET i == FindIndex(a, prod.id)
    IN  IF i # 0 THEN [a EXCEPT ![i].qty = @ + 1] ELSE Append(a, Line(prod, 1))

Max(x, y) == IF x >= y THEN x ELSE y

\* the new quantity without Math.max
ClampQtyNone(qty, q) == qty + q

\* changeQty, line 223
ClampQty(qty, q) == Max(1, qty + q)

\* a decrement at one item drops the line
SetLineQtyDropsAtOne(a, id, q) ==
    LET i == FindIndex(a, id)
    IN  IF a[i].qty + q < 1 THEN SelectSeq(a, LAMBDA l : l.id # id)
        ELSE [a EXCEPT ![i].qty = @ + q]

SetLineQty(a, id, q) ==
    LET i == FindIndex(a, id) IN [a EXCEPT ![i].qty = ClampQty(@, q)]

\* a filter whose test never matches
RemoveLineNone(a, id) == a

\* removeFromCart, line 229
RemoveLine(a, id) == SelectSeq(a, LAMBDA i : i.id # id)

\* updateCartUI, line 243
RECURSIVE CartCount(_)
CartCount(a) == IF a = << >> THEN 0 ELSE Head(a).qty + CartCount(Tail(a))

\* updateCartUI, lines 264-265 (cents)
RECURSIVE CartTotal(_)
CartTotal(a) == IF a = << >> THEN 0 ELSE Head(a).price * Head(a).qty + CartTotal(Tail(a))

\* updateCartUI, lines 245-262: the message or one row per line
RenderCartItems(a) ==
    [msg  |-> IF a = << >> THEN "El carrito esta vacio." ELSE "",
     rows |-> [i \in 1..Len(a) |->
                 [id |-> a[i].id, title |-> a[i].title,
                  price |-> a[i].price, qty |-> a[i].qty]]]

\* renderProducts, lines 140-159
RenderProductList(list) ==
    [msg   |-> IF list = << >> THEN "No se encontraron productos." ELSE "",
     cards |-> [i \in 1..Len(list) |->
                 [id |-> list[i].id, title |-> list[i].title, price |-> list[i].price]]]

\* renderCategories, lines 132-138: the option values
RenderCategories(cats) == << "all" >> \o cats

\* ----------------------------------------------------------------- text
\* A text the filter looks into is a sequence of one-character strings.
UpperCaseLetters == << "A", "B", "C", "D", "E", "F", "G", "H", "I", "J", "K", "L", "M",
                       "N", "O", "P", "Q", "R", "S", "T", "U", "V", "W", "X", "Y", "Z" >>

LowerCaseLetters == << "a", "b", "c", "d", "e", "f", "g", "h", "i", "j", "k", "l", "m",
                       "n", "o", "p", "q", "r", "s", "t", "u", "v", "w", "x", "y", "z" >>

LowerChar(c) ==
    IF \E i \in 1..Len(UpperCaseLetters) : UpperCaseLetters[i] = c
    THEN LowerCaseLetters[CHOOSE i \in 1..Len(UpperCaseLetters) : UpperCaseLetters[i] = c]
    ELSE c

\* String.prototype.toLowerCase
ToLowerCase(t) == [i \in 1..Len(t) |-> LowerChar(t[i])]

IsSpace(c) == c = " "

\* String.prototype.trim
RECURSIVE TrimStart(_)
TrimStart(t) == IF t # << >> /\ IsSpace(Head(t)) THEN TrimStart(Tail(t)) ELSE t

RECURSIVE TrimEnd(_)
TrimEnd(t) ==
    IF t # << >> /\ IsSpace(t[Len(t)]) THEN TrimEnd(SubSeq(t, 1, Len(t) - 1)) ELSE t

Trim(t) == TrimEnd(TrimStart(t))

\* String.prototype.includes
Includes(t, q) ==
    \E off \in 0..(Len(t) - Len(q)) : SubSeq(t, off + 1, off + Len(q)) = q

\* the characters of a product's title, and of its description
TitleChars(p) ==
    CASE p.id = 1 -> << "R", "e", "d", " ", "S", "h", "i", "r", "t" >>
      [] p.id = 2 -> << "B", "l", "u", "e", " ", "H", "a", "t" >>
      [] OTHER    -> << "P", "h", "o", "n", "e" >>

DescriptionChars(p) ==
    CASE p.id = 1 -> << "S", "o", "f", "t", " ", "t", "e", "e" >>
      [] p.id = 2 -> << "R", "e", "d", " ", "w", "o", "o", "l" >>
      [] OTHER    -> << "S", "m", "a", "r", "t" >>

\* applyFilters, line 166
Query(value) == ToLowerCase(Trim(value))

\* the test of products.filter that compares the title as it is written
MatchesFilterTitleAsWritten(p, q, cat) ==
    /\ cat = "all" \/ p.category = cat
    /\ Includes(TitleChars(p), q) \/ Includes(ToLowerCase(DescriptionChars(p)), q)

\* applyFilters, lines 170-171
MatchesFilter(p, q, cat) ==
    /\ cat = "all" \/ p.category = cat
    /\ Includes(ToLowerCase(TitleChars(p)), q) \/ Includes(ToLowerCase(DescriptionChars(p)), q)

\* applyFilters, lines 169-172
FilterProducts(ps, q, cat) == SelectSeq(ps, LAMBDA p : MatchesFilter(p, q, cat))

\* --------------------------------------------------------------- markup
\* What the page's markup holds before any script ran: the containers are
\* empty, the cart panel and the menu are closed.
Unrendered == [msg |-> "", rows |-> << >>]
NoCards    == [msg |-> "", cards |-> << >>]
NoText     == -1

VARIABLES
    products,        \* let products (line 40)
    filtered,        \* let filtered (line 41)
    cart,            \* let cart (line 42)
    slot,            \* localStorage 'cart'
    fetch,           \* the two requests of loadData: "pending", "ok", "fail"
    loadData,        \* loadData: "awaiting", "done", "failed"
    feedback,        \* #products-feedback text
    categoryOptions, \* #category-filter options
    productList,     \* #product-list content
    cartCount,       \* #cart-count text
    cartItems,       \* #cart-items content
    cartTotal,       \* #cart-total text (cents)
    cartHidden,      \* #cart has class hidden
    ariaExpanded,    \* #cart-toggle aria-expanded
    navOpen,         \* #nav has class open
    menuExpanded,    \* #menu-toggle aria-expanded
    notices,         \* alert / confirm / toast of the latest handler
    threw,           \* the latest handler ended in an uncaught TypeError
    lastOp,          \* the latest handler: op, the product id and the argument
                     \* it was called with, and was: the items the cart held
                     \* for that id when it started (0: no line)
    addCount,        \* per product id: calls of addToCart since the cart had
                     \* no line for it, -1 once changeQty touched the line or
                     \* when the line came from localStorage
    searchValue,     \* #search value
    categoryValue,   \* #category-filter value
    timers,          \* pending timeouts of debounce: ms left until each is due
    quiet,           \* ms since the latest input event on #search (capped)
    tabCart,         \* two tabs of one origin: each tab's `cart`, or closed
    tabAdded,        \* per tab: the product ids it added with addToCart
    formFields,      \* #contact-form: the values of name, email and message
    formErrors,      \* the fields whose small.error shows a message
    successHidden    \* #contact-success has class hidden

catalogVars == << products, filtered, fetch, loadData, feedback, categoryOptions, productList >>
cartUI      == << cartCount, cartItems, cartTotal >>
panelVars   == << cartHidden, ariaExpanded >>
navVars     == << navOpen, menuExpanded >>

filterVars  == << searchValue, categoryValue, timers, quiet >>
tabVars     == << tabCart, tabAdded >>
formVars    == << formFields, formErrors, successHidden >>
besideVars  == << filterVars, tabVars, formVars >>

vars == << products, filtered, cart, slot, fetch, loadData, feedback, categoryOptions,
           productList, cartCount, cartItems, cartTotal, cartHidden, ariaExpanded,
           navOpen, menuExpanded, notices, threw, lastOp, addCount,
           searchValue, categoryValue, timers, quiet, tabCart, tabAdded,
           formFields, formErrors, successHidden >>

HasLine(c, id) == IsArray(c) /\ FindIndex(c.a, id) # 0

\* the items the cart holds for this id, 0 when it has no line for it
QtyOf(c, id) == IF HasLine(c, id) THEN c.a[FindIndex(c.a, id)].qty ELSE 0

Op(op, id, arg) == [op |-> op, id |-> id, arg |-> arg, was |-> QtyOf(cart, id)]

\* a handler starts: it becomes the latest one
Handler(op) == lastOp' = op

\* the items the handler right before took out with removeFromCart(id)
JustRemoved(id) ==
    IF lastOp.op = "remove" /\ lastOp.id = id THEN lastOp.was ELSE 0

\* ------------------------------------------------------------ cart view
\* the count shows the lines, not their items
UpdateCartUICountsLines(c) ==
    /\ cartCount' = Len(c.a)
    /\ cartItems' = RenderCartItems(c.a)
    /\ cartTotal' = CartTotal(c.a)

\* updateCartUI, lines 242-266, for an array
UpdateCartUI(c) ==
    /\ cartCount' = CartCount(c.a)
    /\ cartItems' = RenderCartItems(c.a)
    /\ cartTotal' = CartTotal(c.a)

\* a mutation that is not written through
PersistSkipped(c) == UNCHANGED slot

\* saveCart, lines 302-304
Persist(c) == slot' = SaveCart(c)

\* the panel is shown, the toggle's attribute is left alone
OpenCartAttributeStale ==
    /\ cartHidden' = FALSE
    /\ UNCHANGED ariaExpanded

\* openCart, lines 273-276
OpenCart ==
    /\ cartHidden' = FALSE
    /\ ariaExpanded' = "true"

\* closeCart, lines 278-281
CloseCart ==
    /\ cartHidden' = TRUE
    /\ ariaExpanded' = "false"

\* a TypeError leaves the handler: nothing after the failing call runs
Throws ==
    /\ threw' = TRUE
    /\ notices' = << >>
    /\ UNCHANGED << cart, slot, cartUI, panelVars >>

\* ---------------------------------------------------------------- start
\* contents of localStorage 'cart' a page can start on: no key, texts that
\* are not JSON, JSON values that are no array, and the carts saveCart
\* writes (lines of distinct products, 1..MaxQty items each)
SavedLines == { Line(Catalog[i], q) : i \in 1..Len(Catalog), q \in 1..MaxQty }

SavedCarts ==
    { JSArray(a) : a \in { b \in UNION { [1..n -> SavedLines] : n \in 0..Len(Catalog) } :
                             \A i, j \in 1..Len(b) : i # j => b[i].id # b[j].id } }

NotJSONTexts == { << >>, << Tk("junk") >>, << Tk("["), Tk("{") >> }

NotArrayValues == { JSNull, JSBool(FALSE), JSBool(TRUE), JSNumber(0), JSNumber(5),
                    JSString(""), JSString("abc"), JSObject }

SlotContents ==
    {NoItem} \cup { Item(t) : t \in NotJSONTexts }
             \cup { Item(JSONStringify(v)) : v \in NotArrayValues }
             \cup { SaveCart(c) : c \in SavedCarts }

\* debounce(applyFilters, 250), line 76
DebounceMs == 250

Tabs == {"A", "B"}

TabClosed == [t |-> "closed", a |-> << >>, n |-> 0, s |-> ""]

EmptyForm == [name |-> << >>, email |-> << >>, message |-> << >>]

\* the search box is empty, "all" is selected, no timeout is pending
FilterStart ==
    /\ searchValue = << >>
    /\ categoryValue = "all"
    /\ timers = << >>
    /\ quiet = DebounceMs

\* no other tab is looked at
TabsStart ==
    /\ tabCart = [t \in Tabs |-> TabClosed]
    /\ tabAdded = [t \in Tabs |-> {}]

\* the contact form is empty
FormStart ==
    /\ formFields = EmptyForm
    /\ formErrors = {}
    /\ successHidden = TRUE

\* what the page's markup sets before any handler ran: the cart panel and
\* the menu are closed
PageMarkup == [cartHidden |-> TRUE, ariaExpanded |-> "false",
               navOpen |-> FALSE, menuExpanded |-> "false"]

\* module evaluation (lines 40-42) and init (lines 47-53)
StartPage ==
    /\ slot \in SlotContents
    /\ cart = LoadCart(slot)
    /\ products = << >>
    /\ filtered = << >>
    /\ fetch = [products |-> "pending", categories |-> "pending"]
    /\ loadData = "awaiting"
    /\ feedback = "Cargando productos..."
    /\ categoryOptions = << >>
    /\ productList = NoCards
    /\ cartCount = IF IsArray(cart) THEN CartCount(cart.a) ELSE NoText
    /\ cartItems = IF IsArray(cart) THEN RenderCartItems(cart.a) ELSE Unrendered
    /\ cartTotal = IF IsArray(cart) THEN CartTotal(cart.a) ELSE NoText
    /\ cartHidden = PageMarkup.cartHidden
    /\ ariaExpanded = PageMarkup.ariaExpanded
    /\ navOpen = PageMarkup.navOpen
    /\ menuExpanded = PageMarkup.menuExpanded
    /\ notices = << >>
    /\ threw = ~IsArray(cart)
    /\ lastOp = Op("init", 0, 0)
    /\ addCount = [id \in ProductIds |-> IF HasLine(cart, id) THEN -1 ELSE 0]

Init ==
    /\ StartPage
    /\ FilterStart
    /\ TabsStart
    /\ FormStart

\* ------------------------------------------------------------- catalog
\* one of the two requests of Promise.all settles (lines 105-108, 122-126);
\* loadData resumes when both are fulfilled or on the first rejection
\* r is how the request ends: a response with that status, or a rejection
FetchOutcomes == {"200", "404", "rejected"}

\* fetchJSON, lines 123-125: a rejection or a status outside 2xx throws
FetchJSONFulfils(r) == r = "200"

\* the try block goes on once the products have arrived
AllFulfilledProductsOnly(f) == f.products = "ok"

\* Promise.all, lines 105-108: fulfilled once every request is
AllFulfilled(f) == \A w \in DOMAIN f : f[w] = "ok"

FetchSettles(u, r) ==
    /\ fetch[u] = "pending"
    /\ fetch' = [fetch EXCEPT ![u] = IF FetchJSONFulfils(r) THEN "ok" ELSE "fail"]
    /\ Handler(Op("fetch", 0, 0))
    /\ notices' = << >>
    /\ threw' = FALSE
    /\ IF loadData = "awaiting" /\ ~FetchJSONFulfils(r)
       THEN /\ loadData' = "failed"
            /\ feedback' = "Error al cargar productos. Recarga la pagina."
            /\ UNCHANGED << products, filtered, categoryOptions, productList, categoryValue >>
       ELSE IF loadData = "awaiting" /\ AllFulfilled(fetch')
       THEN /\ loadData' = "done"
            /\ products' = Catalog
            /\ filtered' = Catalog
            /\ categoryOptions' = RenderCategories(Categories)
            /\ categoryValue' = "all"
            /\ productList' = RenderProductList(Catalog)
            /\ feedback' = ""
       ELSE UNCHANGED << loadData, products, filtered, categoryOptions, productList,
                         feedback, categoryValue >>
    /\ UNCHANGED << cart, slot, cartUI, panelVars, navVars, addCount >>
    /\ UNCHANGED << searchValue, timers, quiet, tabVars, formVars >>

\* ---------------------------------------------------------------- cart
\* the line of this id, if any, holds fewer than MaxQty items
BelowMaxQty(id) == QtyOf(cart, id) < MaxQty

\* addToCart, lines 199-208
AddToCart(prod) ==
    IF IsArray(cart)
    THEN LET c == JSArray(AddLine(cart.a, prod))
         IN  /\ cart' = c
             /\ Persist(c)
             /\ UpdateCartUI(c)
             /\ notices' = << "toast: Producto agregado" >>
             /\ OpenCart
             /\ threw' = FALSE
    ELSE Throws

\* handleProductClick, lines 181-193, on the "Agregar" button of a card
HandleProductClick(id) ==
    /\ \E i \in 1..Len(productList.cards) : productList.cards[i].id = id
    /\ BelowMaxQty(id)
    /\ addCount[id] < MaxQty
    /\ LET prod == products[CHOOSE i \in 1..Len(products) : products[i].id = id]
       IN  AddToCart(prod)
    /\ Handler(Op("add", id, JustRemoved(id)))
    /\ addCount' = [addCount EXCEPT ![id] = IF @ >= 0 THEN @ + 1 ELSE @]
    /\ UNCHANGED << catalogVars, besideVars, navVars >>

\* changeQty, lines 219-226
ChangeQty(id, q) ==
    /\ IF q > 0 THEN BelowMaxQty(id) ELSE TRUE
    /\ Handler(Op("changeQty", id, q))
    /\ IF ~IsArray(cart)
       THEN Throws /\ UNCHANGED addCount
       ELSE IF FindIndex(cart.a, id) = 0
       THEN /\ threw' = FALSE
            /\ notices' = << >>
            /\ UNCHANGED << cart, slot, cartUI, panelVars, addCount >>
       ELSE LET c == JSArray(SetLineQty(cart.a, id, q))
            IN  /\ cart' = c
                /\ Persist(c)
                /\ UpdateCartUI(c)
                /\ threw' = FALSE
                /\ notices' = << >>
                /\ addCount' = [addCount EXCEPT ![id] = -1]
                /\ UNCHANGED panelVars
    /\ UNCHANGED << catalogVars, besideVars, navVars >>

\* removeFromCart, lines 228-232
RemoveFromCart(id) ==
    /\ Handler(Op("remove", id, 0))
    /\ IF ~IsArray(cart)
       THEN Throws /\ UNCHANGED addCount
       ELSE LET c == JSArray(RemoveLine(cart.a, id))
            IN  /\ cart' = c
                /\ Persist(c)
                /\ UpdateCartUI(c)
                /\ threw' = FALSE
                /\ notices' = << >>
                /\ addCount' = [addCount EXCEPT ![id] = 0]
                /\ UNCHANGED panelVars
    /\ UNCHANGED << catalogVars, besideVars, navVars >>

\* the cart is emptied in memory only
EmptyTheCartNotSaved ==
    /\ cart' = JSArray(<< >>)
    /\ UNCHANGED slot
    /\ UpdateCartUI(JSArray(<< >>))
    /\ addCount' = [id \in ProductIds |-> 0]

\* the cart after `cart = []`, saveCart and updateCartUI
EmptyTheCart ==
    /\ cart' = JSArray(<< >>)
    /\ Persist(JSArray(<< >>))
    /\ UpdateCartUI(JSArray(<< >>))
    /\ addCount' = [id \in ProductIds |-> 0]

\* the answer to confirm is not looked at
ClearCartAnswerIgnored(ok) ==
    /\ Handler(Op("clear", 0, IF ok THEN 1 ELSE 0))
    /\ threw' = FALSE
    /\ IF LengthIsZero(cart)
       THEN /\ notices' = << >>
            /\ UNCHANGED << cart, slot, cartUI, addCount >>
       ELSE /\ notices' = << "confirm: Vaciar carrito?" >>
            /\ EmptyTheCart
    /\ UNCHANGED << panelVars, catalogVars, besideVars, navVars >>

\* clearCart, lines 234-240; ok is the answer to confirm
ClearCart(ok) ==
    /\ Handler(Op("clear", 0, IF ok THEN 1 ELSE 0))
    /\ threw' = FALSE
    /\ IF LengthIsZero(cart)
       THEN /\ notices' = << >>
            /\ UNCHANGED << cart, slot, cartUI, addCount >>
       ELSE /\ notices' = << "confirm: Vaciar carrito?" >>
            /\ IF ok THEN EmptyTheCart
                     ELSE UNCHANGED << cart, slot, cartUI, addCount >>
    /\ UNCHANGED << panelVars, catalogVars, besideVars, navVars >>

\* checkout, lines 284-291
Checkout ==
    /\ Handler(Op("checkout", 0, 0))
    /\ threw' = FALSE
    /\ IF LengthIsZero(cart)
       THEN /\ notices' = << "alert: Carrito vacio" >>
            /\ UNCHANGED << cart, slot, cartUI, addCount, panelVars >>
       ELSE /\ notices' = << "alert: Compra realizada (demo)" >>
            /\ EmptyTheCart
            /\ CloseCart
    /\ UNCHANGED << catalogVars, besideVars, navVars >>

\* ---------------------------------------------------------- cart panel
\* toggleCart, lines 269-271
ToggleCart ==
    /\ Handler(Op("toggle", 0, 0))
    /\ IF cartHidden THEN OpenCart ELSE CloseCart
    /\ notices' = << >>
    /\ threw' = FALSE
    /\ UNCHANGED << cart, slot, cartUI, addCount, catalogVars, besideVars, navVars >>

\* click on #cart-close, line 68
CloseClick ==
    /\ Handler(Op("close", 0, 0))
    /\ CloseCart
    /\ notices' = << >>
    /\ threw' = FALSE
    /\ UNCHANGED << cart, slot, cartUI, addCount, catalogVars, besideVars, navVars >>

\* keydown Escape, lines 88-95
EscapeKey ==
    /\ Handler(Op("escape", 0, 0))
    /\ IF ~cartHidden THEN CloseCart ELSE UNCHANGED panelVars
    /\ IF navOpen
       THEN navOpen' = FALSE /\ menuExpanded' = "false"
       ELSE UNCHANGED navVars
    /\ notices' = << >>
    /\ threw' = FALSE
    /\ UNCHANGED << cart, slot, cartUI, addCount, catalogVars, besideVars >>

\* click on #menu-toggle, lines 61-64
MenuToggle ==
    /\ Handler(Op("menu", 0, 0))
    /\ navOpen' = ~navOpen
    /\ menuExpanded' = IF ~navOpen THEN "true" ELSE "false"
    /\ notices' = << >>
    /\ threw' = FALSE
    /\ UNCHANGED << cart, slot, cartUI, addCount, catalogVars, besideVars, panelVars >>

Next ==
    \/ \E u \in {"products", "categories"}, r \in FetchOutcomes : FetchSettles(u, r)
    \/ \E id \in ProductIds : HandleProductClick(id)
    \/ \E id \in ProductIds, q \in {1, -1} : ChangeQty(id, q)
    \/ \E id \in ProductIds : RemoveFromCart(id)
    \/ \E ok \in BOOLEAN : ClearCart(ok)
    \/ Checkout
    \/ ToggleCart
    \/ CloseClick
    \/ EscapeKey
    \/ MenuToggle

Spec == Init /\ [][Next]_vars

\* ======================================================================
\* The product view: search box, category filter, debounce
\* ======================================================================
\* most timeouts of debounce that may be pending at once
MaxTimers == 2

\* the step by which time is seen to pass
TickMs == DebounceMs \div 2

\* what the user may have in the search box
SearchTexts ==
    { << >>, << " " >>, << "r", "e", "d" >>, << "R", "E", "D" >>,
      << "h", "a", "t", " " >>, << "w", "o", "o", "l" >>, << "z", "z" >> }

cartVars == << cart, slot, cartUI, panelVars, navVars, addCount >>

\* applyFilters, lines 165-175, reading value and cat from the two controls
ApplyFilters(value, cat) ==
    LET list == FilterProducts(products, Query(value), cat)
    IN  /\ filtered' = list
        /\ productList' = RenderProductList(list)

\* the pending timeout is left to run
ClearTimeoutNone(ts) == ts

\* clearTimeout(t), line 359: t is the timeout set last, if still pending
ClearTimeout(ts) == IF ts = << >> THEN << >> ELSE SubSeq(ts, 1, Len(ts) - 1)

\* input on #search: the function debounce returns, lines 358-361
SearchInput(text) ==
    /\ text # searchValue
    /\ Len(ClearTimeout(timers)) < MaxTimers
    /\ searchValue' = text
    /\ timers' = Append(ClearTimeout(timers), DebounceMs)
    /\ quiet' = 0
    /\ Handler(Op("input", 0, 0))
    /\ notices' = << >>
    /\ threw' = FALSE
    /\ UNCHANGED << catalogVars, categoryValue, cartVars, tabVars, formVars >>

\* time passes
Tick ==
    /\ \/ quiet < DebounceMs
       \/ \E i \in 1..Len(timers) : timers[i] > 0
    /\ timers' = [i \in 1..Len(timers) |-> Max(0, timers[i] - TickMs)]
    /\ quiet' = IF quiet + TickMs >= DebounceMs THEN DebounceMs ELSE quiet + TickMs
    /\ UNCHANGED << catalogVars, searchValue, categoryValue, cartVars, tabVars, formVars,
                    lastOp, notices, threw >>

\* a timeout of debounce is due: fn(...a), line 360
DebounceFires ==
    /\ \E i \in 1..Len(timers) :
         /\ timers[i] = 0
         /\ timers' = SubSeq(timers, 1, i - 1) \o SubSeq(timers, i + 1, Len(timers))
    /\ ApplyFilters(searchValue, categoryValue)
    /\ Handler(Op("debounced", 0, 0))
    /\ notices' = << >>
    /\ threw' = FALSE
    /\ UNCHANGED << products, fetch, loadData, feedback, categoryOptions >>
    /\ UNCHANGED << searchValue, categoryValue, quiet, cartVars, tabVars, formVars >>

\* change on #category-filter, line 75: one of its options is chosen
CategoryChange(c) ==
    /\ \E i \in 1..Len(categoryOptions) : categoryOptions[i] = c
    /\ c # categoryValue
    /\ categoryValue' = c
    /\ ApplyFilters(searchValue, c)
    /\ Handler(Op("category", 0, 0))
    /\ notices' = << >>
    /\ threw' = FALSE
    /\ UNCHANGED << products, fetch, loadData, feedback, categoryOptions >>
    /\ UNCHANGED << searchValue, timers, quiet, cartVars, tabVars, formVars >>

InitCatalog ==
    /\ Init
    /\ slot = NoItem

NextCatalog ==
    \/ \E u \in {"products", "categories"}, r \in FetchOutcomes : FetchSettles(u, r)
    \/ \E text \in SearchTexts : SearchInput(text)
    \/ \E c \in {"all"} \cup { Categories[i] : i \in 1..Len(Categories) } : CategoryChange(c)
    \/ Tick
    \/ DebounceFires

SpecCatalog == InitCatalog /\ [][NextCatalog]_vars

\* ----------------------------------------------------------------------
\* The contact form: handleContactForm and validateContact, under
\* submissions of bounded field values.

MaxEmailLen == 5
MinNameLen == 2
MinMessageLen == 10

EmailChars == {"a", "@", ".", " "}

SeqsUpTo(S, n) == UNION { [1..k -> S] : k \in 0..n }

Repeat(c, n) == [i \in 1..n |-> c]

EmailInputs == SeqsUpTo(EmailChars, MaxEmailLen)

NameInputs ==
    { << >>, << " ", " ", " " >>, << "a" >>, << " ", "a", " " >>,
      << "a", "a" >>, << "a", " ", "a" >>, << " ", "a", "a", " " >> }

MessageInputs ==
    { Repeat("a", MinMessageLen - 1),
      << " " >> \o Repeat("a", MinMessageLen - 1) \o << " " >>,
      Repeat("a", MinMessageLen),
      << " " >> \o Repeat("a", MinMessageLen) }

FormInputs == [name : NameInputs, email : EmailInputs, message : MessageInputs]

\* what the user types after a submission
RetypedForms ==
    { [name |-> << "a", "a" >>, email |-> << "a", "@", "a", ".", "a" >>,
       message |-> Repeat("a", MinMessageLen)],
      [name |-> << "a" >>, email |-> << "a", "@", "a" >>,
       message |-> Repeat("a", MinMessageLen)] }

\* the character class [^\s]
NotSpace(c) == ~IsSpace(c)

\* the character class [^\s@]
NotSpaceNorAt(c) == ~IsSpace(c) /\ c # "@"

\* [^\s@]+ matched from position i: the positions the match can end before
ClassRun(s, i) ==
    { j \in (i + 1)..(Len(s) + 1) : \A k \in i..(j - 1) : NotSpaceNorAt(s[k]) }

\* /^[^\s@]+@[^\s@]+\.[^\s@]+$/.test(s), line 336
RegexTest(s) ==
    \E j1 \in ClassRun(s, 1) :
        /\ j1 <= Len(s)
        /\ s[j1] = "@"
        /\ \E j2 \in ClassRun(s, j1 + 1) :
              /\ j2 <= Len(s)
              /\ s[j2] = "."
              /\ (Len(s) + 1) \in ClassRun(s, j2 + 1)

\* validateContact, lines 333-339: the entries of the object it returns
ValidateContact(data) ==
    (IF Len(data.name) < MinNameLen
        THEN { << "name", "El nombre debe tener al menos 2 caracteres" >> } ELSE {})
    \cup (IF ~RegexTest(data.email) THEN { << "email", "Email invalido" >> } ELSE {})
    \cup (IF Len(data.message) < MinMessageLen
        THEN { << "message", "Mensaje demasiado corto" >> } ELSE {})

\* the user edits the fields of the form
FillForm(f) ==
    /\ f # formFields
    /\ formFields' = f
    /\ UNCHANGED << formErrors, successHidden >>
    /\ Handler(Op("fill", 0, 0))
    /\ notices' = << >>
    /\ threw' = FALSE
    /\ UNCHANGED << catalogVars, filterVars, cartVars, tabVars >>

\* submit on #contact-form: handleContactForm, lines 309-331
Submit ==
    LET data == [name    |-> Trim(formFields.name),
                 email   |-> Trim(formFields.email),
                 message |-> Trim(formFields.message)]
        errors == ValidateContact(data)
    IN  /\ formErrors' = errors
        /\ IF errors # {}
              THEN /\ successHidden' = TRUE
                   /\ UNCHANGED formFields
              ELSE /\ successHidden' = FALSE
                   /\ formFields' = EmptyForm
        /\ Handler(Op("submit", 0, 0))
        /\ notices' = << >>
        /\ threw' = FALSE
        /\ UNCHANGED << catalogVars, filterVars, cartVars, tabVars >>

\* the timeout of line 330 is due while the success text is shown
SuccessTimeout ==
    /\ successHidden = FALSE
    /\ successHidden' = TRUE
    /\ UNCHANGED << formFields, formErrors >>
    /\ UNCHANGED << catalogVars, filterVars, cartVars, tabVars, lastOp, notices, threw >>

InitContact ==
    /\ StartPage
    /\ slot = NoItem
    /\ FilterStart
    /\ TabsStart
    /\ formFields \in FormInputs
    /\ formErrors = {}
    /\ successHidden = TRUE

NextContact ==
    \/ \E f \in RetypedForms : FillForm(f)
    \/ Submit
    \/ SuccessTimeout

SpecContact == InitContact /\ [][NextContact]_vars

\* ----------------------------------------------------------------------
\* Two tabs of one origin.  Each evaluates the script on its own: its `cart`
\* is tabCart[t], loaded when the tab opens; localStorage 'cart' is the one
\* slot both write.

TabNo(t) == IF t = "A" THEN 1 ELSE 2

TabProducts == SubSeq(Catalog, 1, 2)

pageVars == << products, filtered, cart, fetch, loadData, feedback, categoryOptions,
               productList, cartUI, panelVars, navVars, addCount, notices, threw >>

\* a 'storage' listener that reloads the cart
OtherTabReloads(own, st) == IF own = TabClosed THEN own ELSE LoadCart(st)

\* the `cart` of a tab that is not the one writing: setEvents (lines 58-96)
\* registers no 'storage' listener, the write does not reach it
OtherTab(own, st) == own

\* tab t ends a handler with its cart being c, saveCart() having run
TabWrites(t, c) ==
    /\ Persist(c)
    /\ tabCart' = [u \in Tabs |-> IF u = t THEN c ELSE OtherTab(tabCart[u], SaveCart(c))]

\* the tab opens: `let cart = loadCart()`, line 42
TabOpens(t) ==
    /\ tabCart[t] = TabClosed
    /\ tabCart' = [tabCart EXCEPT ![t] = LoadCart(slot)]
    /\ lastOp' = [op |-> "tab opens", id |-> 0, arg |-> TabNo(t), was |-> 0]
    /\ UNCHANGED << slot, tabAdded, pageVars, filterVars, formVars >>

\* addToCart in tab t
TabAdd(t, prod) ==
    /\ tabCart[t] # TabClosed
    /\ QtyOf(tabCart[t], prod.id) < MaxQty
    /\ TabWrites(t, JSArray(AddLine(tabCart[t].a, prod)))
    /\ tabAdded' = [tabAdded EXCEPT ![t] = @ \cup {prod.id}]
    /\ lastOp' = [op |-> "tab add", id |-> prod.id, arg |-> TabNo(t),
                  was |-> QtyOf(tabCart[t], prod.id)]
    /\ UNCHANGED << pageVars, filterVars, formVars >>

\* changeQty in tab t, on a line of its cart
TabChangeQty(t, id, q) ==
    /\ tabCart[t] # TabClosed
    /\ HasLine(tabCart[t], id)
    /\ QtyOf(tabCart[t], id) + q <= MaxQty
    /\ TabWrites(t, JSArray(SetLineQty(tabCart[t].a, id, q)))
    /\ lastOp' = [op |-> "tab changeQty", id |-> id, arg |-> TabNo(t),
                  was |-> QtyOf(tabCart[t], id)]
    /\ UNCHANGED << tabAdded, pageVars, filterVars, formVars >>

\* removeFromCart in tab t
TabRemove(t, id) ==
    /\ tabCart[t] # TabClosed
    /\ TabWrites(t, JSArray(RemoveLine(tabCart[t].a, id)))
    /\ lastOp' = [op |-> "tab remove", id |-> id, arg |-> TabNo(t),
                  was |-> QtyOf(tabCart[t], id)]
    /\ UNCHANGED << tabAdded, pageVars, filterVars, formVars >>

\* clearCart confirmed, or checkout, in tab t with lines in its cart
TabEmpties(t) ==
    /\ tabCart[t] # TabClosed
    /\ ~LengthIsZero(tabCart[t])
    /\ TabWrites(t, JSArray(<< >>))
    /\ lastOp' = [op |-> "tab empties", id |-> 0, arg |-> TabNo(t), was |-> 0]
    /\ UNCHANGED << tabAdded, pageVars, filterVars, formVars >>

InitTabs ==
    /\ Init
    /\ slot = NoItem

NextTabs ==
    \/ \E t \in Tabs : TabOpens(t)
    \/ \E t \in Tabs, i \in 1..Len(TabProducts) : TabAdd(t, TabProducts[i])
    \/ \E t \in Tabs, i \in 1..Len(TabProducts), q \in {-1, 1} :
           TabChangeQty(t, TabProducts[i].id, q)
    \/ \E t \in Tabs, i \in 1..Len(TabProducts) : TabRemove(t, TabProducts[i].id)
    \/ \E t \in Tabs : TabEmpties(t)

SpecTabs == InitTabs /\ [][NextTabs]_vars

\* ======================================================================
\* Properties
\* ======================================================================
LinesOf(a, id) == { i \in 1..Len(a) : a[i].id = id }

WellFormedCart(a) ==
    /\ \A id \in ProductIds : Cardinality(LinesOf(a, id)) <= 1
    /\ \A i \in 1..Len(a) : a[i].qty >= 1

\* C1: after any sequence of add, changeQty, remove, clear and checkout on a
\* cart that was empty or loaded from what saveCart wrote, the cart holds at
\* most one line per product id and every line has qty >= 1.
C1_OneLinePerIdQtyPositive == IsArray(cart) => WellFormedCart(cart.a)

C1_Witness ==
    /\ IsArray(cart)
    /\ Len(cart.a) = Len(Catalog)
    /\ lastOp.op = "changeQty" /\ lastOp.arg = -1 /\ lastOp.was = 1

\* C2: n calls of add(p) since the cart had no line for p, with only
\* operations on other ids in between, leave exactly one line for p with
\* qty = n; an add(p) on an existing line adds exactly 1 to that line and
\* changes no other line.
C2_CountedAdds ==
    IsArray(cart) =>
        \A id \in ProductIds :
            addCount[id] >= 1 =>
                /\ Cardinality(LinesOf(cart.a, id)) = 1
                /\ QtyOf(cart, id) = addCount[id]

C2_AddStep ==
    \A id \in ProductIds :
        (lastOp'.op = "add" /\ lastOp'.id = id /\ HasLine(cart, id)) =>
            /\ IsArray(cart')
            /\ Len(cart'.a) = Len(cart.a)
            /\ \A i \in 1..Len(cart.a) :
                 /\ cart'.a[i].id = cart.a[i].id
                 /\ cart'.a[i].qty = cart.a[i].qty + (IF cart.a[i].id = id THEN 1 ELSE 0)

C2_AddCountsCalls == [] C2_CountedAdds /\ [][C2_AddStep]_vars

C2_Witness ==
    /\ IsArray(cart)
    /\ lastOp.op = "add"
    /\ \E id \in ProductIds, other \in ProductIds :
         /\ id # other
         /\ addCount[id] = MaxQty /\ QtyOf(cart, id) = MaxQty
         /\ addCount[other] >= 1

\* C3: changeQty(id, +1/-1) on an existing line sets its qty to
\* max(1, qty + delta), keeps every line in its place and every other line
\* as it was; at qty = 1 a decrement leaves the cart as it was.
C3_ChangeStep ==
    \A id \in ProductIds :
        (lastOp'.op = "changeQty" /\ lastOp'.id = id /\ HasLine(cart, id)) =>
            LET q == lastOp'.arg
                old == QtyOf(cart, id)
            IN  /\ IsArray(cart')
                /\ Len(cart'.a) = Len(cart.a)
                /\ \A i \in 1..Len(cart.a) :
                     /\ cart'.a[i].id = cart.a[i].id
                     /\ cart.a[i].id # id => cart'.a[i] = cart.a[i]
                /\ QtyOf(cart', id) = (IF old + q >= 1 THEN old + q ELSE 1)
                /\ QtyOf(cart', id) >= 1
                /\ (old = 1 /\ q = -1) => cart' = cart

C3_ChangeQtyClamps == [][C3_ChangeStep]_vars

C3_Witness ==
    /\ lastOp.op = "changeQty" /\ lastOp.arg = -1 /\ lastOp.was = 1
    /\ QtyOf(cart, lastOp.id) = 1
    /\ Len(cart.a) >= 2

\* C4: add(p) right after remove(p.id) took p's line out leaves exactly one
\* line for p.id, with qty = 1, whatever the quantity removed.
C4_RemoveThenAddIsFresh ==
    IsArray(cart) =>
        \A id \in ProductIds :
            (lastOp.op = "add" /\ lastOp.id = id /\ lastOp.arg >= 1) =>
                /\ Cardinality(LinesOf(cart.a, id)) = 1
                /\ QtyOf(cart, id) = 1

C4_Witness ==
    /\ IsArray(cart)
    /\ lastOp.op = "add" /\ lastOp.arg = MaxQty
    /\ QtyOf(cart, lastOp.id) = 1

\* C5: whenever the in-memory cart is a cart, the displayed count is the
\* sum of qty over its lines and the displayed total the sum of price*qty.
SumOver(a, f(_)) ==
    LET S[n \in 0..Len(a)] == IF n = 0 THEN 0 ELSE S[n - 1] + f(a[n])
    IN  S[Len(a)]

LineQty(l) == l.qty

LineAmount(l) == l.price * l.qty

C5_DisplayedTotalsMatchCart ==
    IsArray(cart) =>
        /\ cartCount = SumOver(cart.a, LineQty)
        /\ cartTotal = SumOver(cart.a, LineAmount)

C5_Witness ==
    /\ IsArray(cart)
    /\ Len(cart.a) >= 2
    /\ lastOp.op = "changeQty" /\ lastOp.was >= 1
    /\ cartCount >= 3
    /\ \E i \in 1..Len(cart.a) : cartCount # Len(cart.a) /\ cartTotal > cart.a[i].price

\* C6: every cart operation that changes the in-memory cart leaves the
\* serialisation of the new cart in the slot, and at every moment loading
\* the slot gives the in-memory cart.
CartOps == {"add", "changeQty", "remove", "clear", "checkout"}

C6_WriteStep ==
    (lastOp'.op \in CartOps /\ cart' # cart) =>
        slot' = [present |-> TRUE, text |-> JSONStringify(cart')]

C6_WriteThrough == [] (LoadCart(slot) = cart) /\ [][C6_WriteStep]_vars

C6_Witness ==
    /\ lastOp.op = "remove" /\ lastOp.was >= 1
    /\ IsArray(cart) /\ Len(cart.a) >= 1
    /\ slot = [present |-> TRUE, text |-> JSONStringify(cart)]

\* C7: saveCart of a valid cart followed by loadCart gives a cart equal to
\* it: same lines, same order, same fields.
C7_SaveLoadRoundTrip ==
    (IsArray(cart) /\ WellFormedCart(cart.a)) => LoadCart(SaveCart(cart)) = cart

C7_Witness ==
    /\ lastOp.op = "init"
    /\ IsArray(cart) /\ Len(cart.a) = Len(Catalog)
    /\ slot = SaveCart(cart)
    /\ \E i \in 1..Len(cart.a) : cart.a[i].qty = MaxQty

\* C8: whatever the slot holds that is not a serialised cart, loadCart gives
\* the empty cart, so the in-memory cart is always a cart and updateCartUI
\* never raises.
SlotHoldsCart ==
    /\ slot.present
    /\ JSONParse(slot.text).ok
    /\ IsArray(JSONParse(slot.text).v)

C8_LoadCartFailsSoft ==
    /\ ~SlotHoldsCart => LoadCart(slot) = JSArray(<< >>)
    /\ IsArray(cart)
    /\ ~(lastOp.op = "init" /\ threw)

\* C9: checkout on a non-empty cart empties the in-memory and the persisted
\* cart and closes the cart view without asking; on an empty cart it shows
\* the failure notice and changes nothing.
C9_CheckoutStep ==
    (lastOp'.op = "checkout" /\ IsArray(cart)) =>
        IF Len(cart.a) > 0
        THEN /\ cart' = JSArray(<< >>)
             /\ slot' = [present |-> TRUE, text |-> << Tk("["), Tk("]") >>]
             /\ cartHidden'
             /\ notices' = << "alert: Compra realizada (demo)" >>
        ELSE /\ notices' = << "alert: Carrito vacio" >>
             /\ cart' = cart
             /\ slot' = slot
             /\ cartHidden' = cartHidden

C9_Checkout == [][C9_CheckoutStep]_vars

C9_Witness ==
    /\ lastOp.op = "checkout"
    /\ notices = << "alert: Compra realizada (demo)" >>
    /\ cart = JSArray(<< >>)
    /\ slot = [present |-> TRUE, text |-> << Tk("["), Tk("]") >>]
    /\ cartHidden

\* C10: clear on an empty cart asks nothing and changes nothing; on a
\* non-empty cart it asks, a declined confirmation leaves cart, slot and
\* displayed totals as they were, a confirmed one leaves the in-memory and
\* the persisted cart empty.
C10_ClearStep ==
    (lastOp'.op = "clear" /\ IsArray(cart)) =>
        IF Len(cart.a) = 0
        THEN /\ notices' = << >>
             /\ cart' = cart /\ slot' = slot
             /\ cartCount' = cartCount /\ cartTotal' = cartTotal
        ELSE /\ notices' = << "confirm: Vaciar carrito?" >>
             /\ IF lastOp'.arg = 1
                THEN /\ cart' = JSArray(<< >>)
                     /\ LoadCart(slot') = JSArray(<< >>)
                     /\ slot'.present
                ELSE /\ cart' = cart /\ slot' = slot
                     /\ cartCount' = cartCount /\ cartTotal' = cartTotal
                     /\ cartItems' = cartItems

C10_Clear == [][C10_ClearStep]_vars

C10_Witness ==
    /\ lastOp.op = "clear" /\ lastOp.arg = 0
    /\ notices = << "confirm: Vaciar carrito?" >>
    /\ IsArray(cart) /\ Len(cart.a) >= 2
    /\ cartCount >= 2

\* C11: remove(id) and changeQty(id, delta) for an id without a line leave
\* the in-memory cart and the persisted slot exactly as they were, whatever
\* the slot holds.
C11_AbsentIdStep ==
    (/\ lastOp'.op \in {"remove", "changeQty"}
     /\ IsArray(cart)
     /\ ~HasLine(cart, lastOp'.id)) =>
        /\ cart' = cart
        /\ slot' = slot

C11_AbsentIdIsNoOp == [][C11_AbsentIdStep]_vars

\* ----------------------------------------------------------------------
\* q occurs in t, letters compared without regard to case
OccursIgnoringCase(q, t) ==
    \E off \in 0..(Len(t) - Len(q)) :
        \A k \in 1..Len(q) : LowerChar(t[off + k]) = LowerChar(q[k])

Satisfies(p, q, cat) ==
    /\ cat = "all" \/ p.category = cat
    /\ OccursIgnoringCase(q, TitleChars(p)) \/ OccursIgnoringCase(q, DescriptionChars(p))

PlaceIn(ps, p) == CHOOSE i \in 1..Len(ps) : ps[i] = p

\* list holds exactly the products of ps that satisfy (q, cat), in the
\* order of ps, each once
ExactlyThose(list, ps, q, cat) ==
    /\ \A i \in 1..Len(list) : \E j \in 1..Len(ps) : ps[j] = list[i]
    /\ \A i, j \in 1..Len(list) : i < j => PlaceIn(ps, list[i]) < PlaceIn(ps, list[j])
    /\ \A j \in 1..Len(ps) :
         Satisfies(ps[j], q, cat) <=> \E i \in 1..Len(list) : list[i] = ps[j]

AfterApplyFilters == lastOp.op \in {"debounced", "category"}

\* C12: applyFilters sets the filtered view to exactly the products whose
\* category is the chosen one (or "all" is chosen) and whose title or
\* description contains the query, case put aside, in catalog order and
\* each once; "all" with an empty query gives the whole catalog in its
\* order.  The query is the text of the search box without the white
\* space at its ends.
C12_ApplyFilters ==
    AfterApplyFilters =>
        /\ ExactlyThose(filtered, products, Trim(searchValue), categoryValue)
        /\ (categoryValue = "all" /\ Trim(searchValue) = << >>) => filtered = products
        /\ productList.cards = [i \in 1..Len(filtered) |->
              [id |-> filtered[i].id, title |-> filtered[i].title,
               price |-> filtered[i].price]]

C12_Witness ==
    /\ lastOp.op = "debounced"
    /\ products = Catalog
    /\ searchValue = << "h", "a", "t", " " >>
    /\ Len(filtered) = 1 /\ filtered[1].id = 2

\* C13: if a fetch rejects or answers outside 2xx, the catalog and the
\* filtered view stay empty, no product is rendered, the error message is
\* shown and no request is issued again; the catalog is non-empty only when
\* both fetches succeeded.
C13_FailedLoadShowsNothing ==
    /\ (\E u \in DOMAIN fetch : fetch[u] = "fail") =>
          /\ products = << >>
          /\ filtered = << >>
          /\ productList.cards = << >>
          /\ feedback = "Error al cargar productos. Recarga la pagina."
    /\ products # << >> => \A u \in DOMAIN fetch : fetch[u] = "ok"

C13_NoRetryStep ==
    \A u \in DOMAIN fetch : fetch[u] # "pending" => fetch'[u] = fetch[u]

C13_AllOrNothingLoad == [] C13_FailedLoadShowsNothing /\ [][C13_NoRetryStep]_vars

C13_Witness ==
    /\ fetch.products = "ok" /\ fetch.categories = "fail"
    /\ lastOp.op = "debounced"
    /\ searchValue # << >>
    /\ productList.cards = << >>

\* C14: the "no products found" message is on the page only once the
\* catalog has been loaded.
C14_NoResultsOnlyAfterLoad ==
    productList.msg = "No se encontraron productos." => loadData = "done"

\* C15: at most one debounced recomputation is pending; an input cancels the
\* pending one and schedules a new one; a recomputation runs only after
\* 250 ms without input, leaves none pending, and uses the text and the
\* category the controls hold then.
C15_OnePending == Len(timers) <= 1

C15_Step ==
    /\ (lastOp'.op = "input" /\ searchValue' # searchValue) => timers' = << DebounceMs >>
    /\ (lastOp'.op = "debounced" /\ Len(timers') < Len(timers)) =>
          /\ quiet >= DebounceMs
          /\ timers' = << >>
          /\ ExactlyThose(filtered', products, Trim(searchValue), categoryValue)

C15_Debounce == [] C15_OnePending /\ [][C15_Step]_vars

C15_Witness ==
    /\ lastOp.op = "debounced"
    /\ timers = << >>
    /\ categoryValue = "clothing"
    /\ searchValue = << "w", "o", "o", "l" >>
    /\ Len(filtered) = 1

\* C17: whenever no debounced recomputation is pending, the visible product
\* list is the list of catalog products that satisfy the category chosen
\* and the text in the search box.
VisibleIds == [i \in 1..Len(productList.cards) |-> productList.cards[i].id]

C17_VisibleIsFiltered ==
    timers = << >> =>
        LET want == SelectSeq(products,
                              LAMBDA p : Satisfies(p, Trim(searchValue), categoryValue))
        IN  VisibleIds = [i \in 1..Len(want) |-> want[i].id]

\* ----------------------------------------------------------------------
\* the length of s between its first and its last character that is not
\* white space
Marks(s) == { i \in 1..Len(s) : ~IsSpace(s[i]) }

CoreLen(s) ==
    IF Marks(s) = {} THEN 0
    ELSE (CHOOSE i \in Marks(s) : \A j \in Marks(s) : j <= i)
         - (CHOOSE i \in Marks(s) : \A j \in Marks(s) : i <= j) + 1

\* s, between its first and last character that is not white space, has no
\* white space, exactly one "@" which is not its first character, and a "."
\* after the "@" that is neither next to it nor the last character
EmailShaped(s) ==
    /\ Marks(s) # {}
    /\ LET first == CHOOSE i \in Marks(s) : \A j \in Marks(s) : i <= j
           last  == CHOOSE i \in Marks(s) : \A j \in Marks(s) : j <= i
       IN  /\ \A i \in first..last : ~IsSpace(s[i])
           /\ \E at \in (first + 1)..last :
                /\ s[at] = "@"
                /\ \A i \in first..last : s[i] = "@" => i = at
                /\ \E dot \in (at + 2)..(last - 1) : s[dot] = "."

RuleBroken(f) ==
    [name    |-> CoreLen(f.name) < 2,
     email   |-> ~EmailShaped(f.email),
     message |-> CoreLen(f.message) < 10]

\* C16: a submission reports an error for a field exactly when the field
\* breaks its rule (name under 2 characters, email not shaped
\* local@domain.tld, message under 10 characters, white space at the ends
\* not counted), reports nothing for the other fields, and shows the
\* success text if and only if it reports no error.
HideStep ==
    /\ ~successHidden
    /\ successHidden'
    /\ UNCHANGED << formFields, formErrors, lastOp >>

C16_SubmitStep ==
    (lastOp'.op = "submit" /\ ~HideStep) =>
        /\ \A fld \in {"name", "email", "message"} :
              RuleBroken(formFields)[fld] <=> \E e \in formErrors' : e[1] = fld
        /\ \A e \in formErrors' : e[1] \in {"name", "email", "message"}
        /\ successHidden' = FALSE <=> formErrors' = {}

C16_Validation == [][C16_SubmitStep]_vars

C16_Witness ==
    /\ lastOp.op = "submit"
    /\ formFields.email = << "a", "@", ".", "a" >>
    /\ formFields.name = << " ", "a", "a", " " >>
    /\ formErrors = { << "email", "Email invalido" >> }
    /\ successHidden

\* ----------------------------------------------------------------------
TabOps == {"tab add", "tab changeQty", "tab remove", "tab empties"}

ActingTab == CHOOSE t \in Tabs : TabNo(t) = lastOp.arg

\* C18: with two tabs of one origin every mutation in a tab overwrites the
\* slot with that tab's whole cart, a tab's cart is what the slot held when
\* the tab opened and changes only by the tab's own handlers, never by the
\* other tab's write.  (The lost update is the witness.)
C18_LastWriter ==
    lastOp.op \in TabOps =>
        /\ tabCart[ActingTab] # TabClosed
        /\ LoadCart(slot) = tabCart[ActingTab]
        /\ slot = Item(JSONStringify(tabCart[ActingTab]))

C18_TabStep ==
    \A t \in Tabs :
        tabCart'[t] # tabCart[t] =>
            IF tabCart[t] = TabClosed
            THEN tabCart'[t] = LoadCart(slot) /\ slot' = slot
            ELSE lastOp'.op \in TabOps /\ lastOp'.arg = TabNo(t)

C18_LastWriteWins == [] C18_LastWriter /\ [][C18_TabStep]_vars

\* tab A added product 1 and saved it, tab B then wrote: the slot has lost
\* the line, tab A still holds it
C18_Witness ==
    /\ 1 \in tabAdded["A"]
    /\ HasLine(tabCart["A"], 1)
    /\ lastOp.op \in TabOps
    /\ lastOp.arg = TabNo("B")
    /\ ~LengthIsZero(LoadCart(slot))
    /\ ~HasLine(LoadCart(slot), 1)

\* ----------------------------------------------------------------------
IdsOf(a) == [i \in 1..Len(a) |-> a[i].id]

\* C19: the lines of the cart stay in the order their products were first
\* added: add of a product without a line appends its line at the end, add
\* of a product with a line and changeQty leave every line in its place,
\* remove takes the product's line out and keeps the others in their order.
C19_OrderStep ==
    IsArray(cart) =>
        LET id == lastOp'.id
            n  == Len(cart.a)
        IN  /\ (lastOp'.op = "add" /\ ~HasLine(cart, id)) =>
                  /\ IsArray(cart')
                  /\ Len(cart'.a) = n + 1
                  /\ SubSeq(cart'.a, 1, n) = cart.a
                  /\ cart'.a[n + 1].id = id
            /\ ((lastOp'.op = "add" /\ HasLine(cart, id)) \/ lastOp'.op = "changeQty") =>
                  /\ IsArray(cart')
                  /\ IdsOf(cart'.a) = IdsOf(cart.a)
            /\ lastOp'.op = "remove" =>
                  /\ IsArray(cart')
                  /\ Len(cart'.a) = (IF HasLine(cart, id) THEN n - 1 ELSE n)
                  /\ \A k \in 1..Len(cart'.a) :
                        cart'.a[k] = cart.a[IF HasLine(cart, id) /\ k >= FindIndex(cart.a, id)
                                            THEN k + 1 ELSE k]

C19_InsertionOrder == [][C19_OrderStep]_vars

C19_Witness ==
    /\ IsArray(cart)
    /\ lastOp.op = "remove" /\ lastOp.id = 2 /\ lastOp.was >= 1
    /\ IdsOf(cart.a) = << 3, 1 >>

\* C20: the cart panel is shown if and only if the toggle's aria-expanded
\* is "true"; an add leaves it shown, a checkout of a cart with lines, a
\* close and Escape leave it hidden, a toggle flips it, and changeQty,
\* remove and clear leave it as it was.
C20_PanelMatchesAttribute == (~cartHidden) <=> (ariaExpanded = "true")

C20_PanelStep ==
    /\ (lastOp'.op = "add" /\ IsArray(cart)) => ~cartHidden'
    /\ (lastOp'.op = "checkout" /\ ~LengthIsZero(cart)) => cartHidden'
    /\ lastOp'.op \in {"close", "escape"} => cartHidden'
    /\ lastOp'.op = "toggle" => cartHidden' = ~cartHidden
    /\ lastOp'.op \in {"changeQty", "remove", "clear"} => cartHidden' = cartHidden

====
